---------------------------- MODULE Spec2Model ----------------------------
(***************************************************************************)
(* Model of rainze_core::system_monitor::SystemMonitor.                    *)
(*                                                                         *)
(* One SystemMonitor instance (a sysinfo::System handle behind a           *)
(* std::sync::Mutex) is called by several threads.  Every #[pymethods]     *)
(* method is split into the steps its body performs: taking the lock,      *)
(* the sysinfo refresh, each accessor read, and the return (which drops    *)
(* the MutexGuard).  What the operating system reports to a sysinfo        *)
(* refresh is an input of that step.                                       *)
(*                                                                         *)
(* Numbers.  f32 percentages are kept as exact fractions num/den (den > 0);*)
(* the rounding of the f32 division is monotone and is not modelled.       *)
(* Process names are sequences of one-character strings.                   *)
(***************************************************************************)
EXTENDS Integers, Sequences, FiniteSets

(***************************************************************************)
(* Bounds of the model.                                                    *)
(***************************************************************************)
\* number of threads calling the one instance
NumThreads == 2
\* total number of method calls started in a behaviour
MaxCalls == 2
\* largest number of processes in one process listing
MaxProcs == 2

Threads == 1..NumThreads
NoThread == 0

(***************************************************************************)
(* Values returned to the caller.                                          *)
(***************************************************************************)
F32(n, d) == [kind |-> "f32", num |-> n, den |-> d]
Bool(b) == [kind |-> "bool", b |-> b]
Unit == [kind |-> "unit"]
NoValue == [kind |-> "none"]

(***************************************************************************)
(* Process names and the meeting-app signatures (is_meeting_app).          *)
(***************************************************************************)
Upper == <<"A","B","C","D","E","F","G","H","I","J","K","L","M",
           "N","O","P","Q","R","S","T","U","V","W","X","Y","Z">>
Lower == <<"a","b","c","d","e","f","g","h","i","j","k","l","m",
           "n","o","p","q","r","s","t","u","v","w","x","y","z">>

\* char::to_lowercase on the ASCII range
ToLowerChar(c) ==
    IF \E i \in 1..Len(Upper) : Upper[i] = c
    THEN Lower[CHOOSE i \in 1..Len(Upper) : Upper[i] = c]
    ELSE c

\* str::to_lowercase
ToLowercaseKeepCase(s) == s
ToLowercase(s) == [i \in 1..Len(s) |-> ToLowerChar(s[i])]

\* str::contains(&str)
Contains(name, app) ==
    \E i \in 1..(Len(name) - Len(app) + 1) :
        SubSeq(name, i, i + Len(app) - 1) = app

\* let meeting_apps = [...]
meeting_apps ==
    << <<"z","o","o","m">>,
       <<"t","e","a","m","s">>,
       <<"w","e","m","e","e","t","a","p","p">>,
       <<"d","i","n","g","t","a","l","k">>,
       <<"f","e","i","s","h","u">>,
       <<"w","e","b","e","x">>,
       <<"s","l","a","c","k">> >>

\* the body of the outer for loop for one process: lowercase the name, then
\* test every signature
NameMatches(name) ==
    LET lowered == ToLowercase(name)
    IN  \E k \in 1..Len(meeting_apps) : Contains(lowered, meeting_apps[k])

(***************************************************************************)
(* What the operating system may report to a refresh.                      *)
(***************************************************************************)
\* process names the OS may list
TeamsExe == <<"T","e","a","m","s",".","e","x","e">>
ZoomcastHelper == <<"z","o","o","m","c","a","s","t","_","h","e","l","p","e","r">>
Explorer == <<"e","x","p","l","o","r","e","r">>
ProcessNames == {TeamsExe, ZoomcastHelper, Explorer}

\* process listings: pid -> name, for up to MaxProcs processes
ProcessReports ==
    UNION { [1..n -> ProcessNames] : n \in 0..MaxProcs }

\* global CPU usage figures (percent) sysinfo computes at a refresh
CpuReports == {0, 100}

\* <<total, used>> pairs: used memory never exceeds total memory, except
\* that a facility reporting no total memory at all may report anything
MemoryReports == { <<0, 0>>, <<0, 1>>, <<2, 1>>, <<2, 2>> }


(***************************************************************************)
(* sysinfo::System as the monitor uses it: the global CPU usage, the       *)
(* memory counters and the process table.  cpuE, memE and procE name the   *)
(* call whose refresh last wrote the counter (0: System::new_all()).       *)
(***************************************************************************)
System(c, m, p) ==
    [cpu |-> c, cpuE |-> 0, total |-> m[1], used |-> m[2], memE |-> 0,
     procs |-> p, procE |-> 0]

\* sys.refresh_cpu_usage()
refresh_cpu_usage_and_memory(s, c, m, p, e) ==
    [s EXCEPT !.cpu = c, !.cpuE = e, !.total = m[1], !.used = m[2], !.memE = e]
refresh_cpu_usage(s, c, m, p, e) ==
    [s EXCEPT !.cpu = c, !.cpuE = e]

\* sys.refresh_memory()
refresh_memory(s, c, m, p, e) ==
    [s EXCEPT !.total = m[1], !.used = m[2], !.memE = e]

\* sys.refresh_processes(ProcessesToUpdate::All, true)
refresh_processes(s, c, m, p, e) ==
    [s EXCEPT !.procs = p, !.procE = e]

\* sys.refresh_all()
refresh_all_but_processes(s, c, m, p, e) ==
    [s EXCEPT !.cpu = c, !.cpuE = e, !.total = m[1], !.used = m[2], !.memE = e]
refresh_all(s, c, m, p, e) ==
    [s EXCEPT !.cpu = c, !.cpuE = e, !.total = m[1], !.used = m[2], !.memE = e,
              !.procs = p, !.procE = e]

VARIABLES
    lock,       \* the Mutex: the thread holding the guard, or NoThread
    sys,        \* the System inside the Mutex
    pc,         \* each thread's position in the method it is running
    op,         \* the method each thread is running (or ran last)
    id,         \* the number of each thread's current (or last) call
    loc,        \* get_memory_usage's locals total and used
    todo,       \* is_meeting_app's iterator: the pids not yet visited
    ret,        \* the value the thread's last call returned
    calls,      \* number of calls started so far
    seen,       \* history: the refreshes whose data the call has read
    failed,     \* history: the OS could not answer the call's refresh
    queries,    \* history: how often the call queried the OS
    locked,     \* history: how often the call took the lock
    since       \* history: the refresh() that had returned and whose state the
                \* handle held both when the call was made and when it took
                \* the lock, with what that state stood for (else NoRefresh)

vars == <<lock, sys, pc, op, id, loc, todo, ret, calls, seen, failed,
          queries, locked, since>>

Methods == {"get_cpu_usage", "get_memory_usage", "is_fullscreen",
            "is_meeting_app", "refresh"}

\* if total > 0.0 { (used / total) * 100.0 } else { 0.0 }
MemoryPercentInverted(total, used) ==
    IF used > 0 THEN F32(total * 100, used) ELSE F32(0, 1)
MemoryPercentNoZeroCase(total, used) ==
    IF total > 0 THEN F32(used * 100, total) ELSE F32(100, 1)
MemoryPercent(total, used) ==
    IF total > 0 THEN F32(used * 100, total) ELSE F32(0, 1)

\* the refresh() call that wrote all three counters of the handle as they
\* are now (only refresh_all writes all three in one call), or 0
InstalledByRefresh ==
    IF sys.cpuE = sys.memE /\ sys.memE = sys.procE THEN sys.cpuE ELSE 0

\* that call, with the memory percentage and the meeting-app answer of the
\* state it installed
NoRefresh == [e |-> 0, mem |-> F32(0, 1), app |-> FALSE]
Installed ==
    IF InstalledByRefresh > 0
    THEN [e |-> InstalledByRefresh,
          mem |-> MemoryPercent(sys.total, sys.used),
          app |-> \E p \in DOMAIN sys.procs : NameMatches(sys.procs[p])]
    ELSE NoRefresh

\* what System::new_all() may have scanned.  Every method that returns a
\* counter queries the OS for it first, so the initial figures reach a caller
\* only when that query fails: a few of them are enough.
InitialScans ==
    { System(c, m, p) : c \in CpuReports,
                        m \in { <<0, 0>>, <<2, 1>> },
                        p \in { <<>>, <<TeamsExe>> } }

\* SystemMonitor::new(): the unlocked Mutex around a full initial scan
Init ==
    /\ lock = NoThread
    /\ sys \in InitialScans
    /\ pc = [t \in Threads |-> "idle"]
    /\ op = [t \in Threads |-> "none"]
    /\ id = [t \in Threads |-> 0]
    /\ loc = [t \in Threads |-> [total |-> 0, used |-> 0]]
    /\ todo = [t \in Threads |-> {}]
    /\ ret = [t \in Threads |-> NoValue]
    /\ calls = 0
    /\ seen = [t \in Threads |-> {}]
    /\ failed = [t \in Threads |-> FALSE]
    /\ queries = [t \in Threads |-> 0]
    /\ locked = [t \in Threads |-> 0]
    /\ since = [t \in Threads |-> NoRefresh]

\* a thread of the embedding application calls method m
Call(t, m) ==
    /\ pc[t] \in {"idle", "done"}
    /\ calls < MaxCalls
    /\ calls' = calls + 1
    /\ id' = [id EXCEPT ![t] = calls + 1]
    /\ op' = [op EXCEPT ![t] = m]
    /\ pc' = [pc EXCEPT ![t] = IF m = "is_fullscreen" THEN "body" ELSE "lock"]
    /\ loc' = [loc EXCEPT ![t] = [total |-> 0, used |-> 0]]
    /\ todo' = [todo EXCEPT ![t] = {}]
    /\ ret' = [ret EXCEPT ![t] = NoValue]
    /\ seen' = [seen EXCEPT ![t] = {}]
    /\ failed' = [failed EXCEPT ![t] = FALSE]
    /\ queries' = [queries EXCEPT ![t] = 0]
    /\ locked' = [locked EXCEPT ![t] = 0]
    /\ since' = [since EXCEPT ![t] = IF lock = NoThread THEN Installed ELSE NoRefresh]
    /\ UNCHANGED <<lock, sys>>

\* Mutex::lock() returns only while no other guard is alive
MutexFreeIgnored == TRUE
MutexFree == lock = NoThread

\* let mut sys = self.system.lock().unwrap();
Lock(t) ==
    /\ pc[t] = "lock"
    /\ MutexFree
    /\ lock' = t
    /\ locked' = [locked EXCEPT ![t] = @ + 1]
    /\ pc' = [pc EXCEPT ![t] = "refresh"]
    /\ since' = [since EXCEPT ![t] = IF @ = Installed THEN @ ELSE NoRefresh]
    /\ UNCHANGED <<sys, op, id, loc, todo, ret, calls, seen, failed, queries>>

\* the MutexGuard sys goes out of scope
DropGuard(t) == lock' = NoThread

\* return v: the guard is dropped and the caller gets v
Return(t, v) ==
    /\ ret' = [ret EXCEPT ![t] = v]
    /\ loc' = [loc EXCEPT ![t] = [total |-> 0, used |-> 0]]
    /\ todo' = [todo EXCEPT ![t] = {}]
    /\ pc' = [pc EXCEPT ![t] = "done"]
    /\ DropGuard(t)

(***************************************************************************)
(* The OS's answer to a refresh.  When the OS facility cannot be queried   *)
(* the refresh functions report nothing to the monitor (their results are  *)
(* () or discarded): the counter is left stale or empty.                   *)
(***************************************************************************)
CpuAnswers(ok) == IF ok THEN CpuReports ELSE {sys.cpu, 0}
MemoryAnswers(ok) == IF ok THEN MemoryReports ELSE {<<sys.total, sys.used>>, <<0, 0>>}
ProcessAnswers(ok) == IF ok THEN ProcessReports ELSE {sys.procs, <<>>}

\* the bookkeeping of one refresh step of thread t
Queried(t, ok, next) ==
    /\ queries' = [queries EXCEPT ![t] = @ + 1]
    /\ failed' = [failed EXCEPT ![t] = ~ok]
    /\ pc' = [pc EXCEPT ![t] = next]
    /\ UNCHANGED <<lock, op, id, loc, todo, ret, calls, seen, locked, since>>


(***************************************************************************)
(* get_cpu_usage                                                           *)
(***************************************************************************)
\* sys.refresh_cpu_usage();
GetCpuUsageRefreshRetrying(t) ==
    /\ pc[t] = "refresh" /\ op[t] = "get_cpu_usage"
    /\ \E ok \in BOOLEAN :
         /\ \E c \in CpuAnswers(ok) :
                sys' = refresh_cpu_usage(sys, c, <<sys.total, sys.used>>,
                                         sys.procs, id[t])
         /\ Queried(t, ok, IF ok THEN "read" ELSE "refresh")
GetCpuUsageRefresh(t) ==
    /\ pc[t] = "refresh" /\ op[t] = "get_cpu_usage"
    /\ \E ok \in BOOLEAN :
         /\ \E c \in CpuAnswers(ok) :
                sys' = refresh_cpu_usage(sys, c, <<sys.total, sys.used>>,
                                         sys.procs, id[t])
         /\ Queried(t, ok, "read")

\* the value of sys.global_cpu_usage()
CpuPercent(c) == F32(c, 1)

\* sys.global_cpu_usage()  (the function's value: the guard is dropped)
GetCpuUsageReturn(t) ==
    /\ pc[t] = "read" /\ op[t] = "get_cpu_usage"
    /\ seen' = [seen EXCEPT ![t] = @ \cup {sys.cpuE}]
    /\ Return(t, CpuPercent(sys.cpu))
    /\ UNCHANGED <<sys, op, id, calls, failed, queries, locked, since>>

(***************************************************************************)
(* get_memory_usage                                                        *)
(***************************************************************************)
\* sys.refresh_memory();
GetMemoryUsageRefreshThenUnlock(t) ==
    /\ pc[t] = "refresh" /\ op[t] = "get_memory_usage"
    /\ \E ok \in BOOLEAN :
         /\ \E m \in MemoryAnswers(ok) :
                sys' = refresh_memory(sys, sys.cpu, m, sys.procs, id[t])
         /\ queries' = [queries EXCEPT ![t] = @ + 1]
         /\ failed' = [failed EXCEPT ![t] = ~ok]
    /\ pc' = [pc EXCEPT ![t] = "read"]
    /\ lock' = NoThread
    /\ UNCHANGED <<op, id, loc, todo, ret, calls, seen, locked, since>>
GetMemoryUsageRefresh(t) ==
    /\ pc[t] = "refresh" /\ op[t] = "get_memory_usage"
    /\ \E ok \in BOOLEAN :
         /\ \E m \in MemoryAnswers(ok) :
                sys' = refresh_memory(sys, sys.cpu, m, sys.procs, id[t])
         /\ Queried(t, ok, "read")

\* let total = sys.total_memory() as f32;  (exact below 2^24)
GetMemoryUsageTotal(t) ==
    /\ pc[t] = "read" /\ op[t] = "get_memory_usage"
    /\ loc' = [loc EXCEPT ![t].total = sys.total]
    /\ seen' = [seen EXCEPT ![t] = @ \cup {sys.memE}]
    /\ pc' = [pc EXCEPT ![t] = "used"]
    /\ UNCHANGED <<lock, sys, op, id, todo, ret, calls, failed, queries,
                   locked, since>>

\* let used = sys.used_memory() as f32;
GetMemoryUsageUsed(t) ==
    /\ pc[t] = "used" /\ op[t] = "get_memory_usage"
    /\ loc' = [loc EXCEPT ![t].used = sys.used]
    /\ seen' = [seen EXCEPT ![t] = @ \cup {sys.memE}]
    /\ pc' = [pc EXCEPT ![t] = "calc"]
    /\ UNCHANGED <<lock, sys, op, id, todo, ret, calls, failed, queries,
                   locked, since>>

GetMemoryUsageReturn(t) ==
    /\ pc[t] = "calc" /\ op[t] = "get_memory_usage"
    /\ Return(t, MemoryPercent(loc[t].total, loc[t].used))
    /\ UNCHANGED <<sys, op, id, calls, seen, failed, queries, locked, since>>

(***************************************************************************)
(* is_fullscreen                                                           *)
(***************************************************************************)
FullscreenIfMeetingListed == \E p \in DOMAIN sys.procs : NameMatches(sys.procs[p])
\* the body: false
Fullscreen == FALSE

IsFullscreen(t) ==
    /\ pc[t] = "body" /\ op[t] = "is_fullscreen"
    /\ ret' = [ret EXCEPT ![t] = Bool(Fullscreen)]
    /\ pc' = [pc EXCEPT ![t] = "done"]
    /\ UNCHANGED <<lock, sys, op, id, loc, todo, calls, seen, failed, queries,
                   locked, since>>

(***************************************************************************)
(* is_meeting_app                                                          *)
(***************************************************************************)
\* sys.refresh_processes(sysinfo::ProcessesToUpdate::All, true);
IsMeetingAppRefresh(t) ==
    /\ pc[t] = "refresh" /\ op[t] = "is_meeting_app"
    /\ \E ok \in BOOLEAN :
         /\ \E p \in ProcessAnswers(ok) :
                sys' = refresh_processes(sys, sys.cpu, <<sys.total, sys.used>>,
                                         p, id[t])
         /\ Queried(t, ok, "iter")

\* sys.processes().values(): the iterator over the process table
IsMeetingAppIter(t) ==
    /\ pc[t] = "iter" /\ op[t] = "is_meeting_app"
    /\ todo' = [todo EXCEPT ![t] = DOMAIN sys.procs]
    /\ seen' = [seen EXCEPT ![t] = @ \cup {sys.procE}]
    /\ pc' = [pc EXCEPT ![t] = "scan"]
    /\ UNCHANGED <<lock, sys, op, id, loc, ret, calls, failed, queries,
                   locked, since>>

\* return true;  (inside both loops)
ReturnOnMatchKeepLocked(t) ==
    /\ ret' = [ret EXCEPT ![t] = Bool(TRUE)]
    /\ loc' = [loc EXCEPT ![t] = [total |-> 0, used |-> 0]]
    /\ todo' = [todo EXCEPT ![t] = {}]
    /\ pc' = [pc EXCEPT ![t] = "done"]
    /\ UNCHANGED lock
ReturnOnMatch(t) == Return(t, Bool(TRUE))

\* one turn of the outer loop, on any process not yet visited (the order of
\* a HashMap's values is unspecified)
IsMeetingAppScan(t) ==
    /\ pc[t] = "scan" /\ op[t] = "is_meeting_app"
    /\ \E p \in todo[t] \cap DOMAIN sys.procs :
         /\ seen' = [seen EXCEPT ![t] = @ \cup {sys.procE}]
         /\ IF NameMatches(sys.procs[p])
            THEN ReturnOnMatch(t)
            ELSE /\ todo' = [todo EXCEPT ![t] = @ \ {p}]
                 /\ UNCHANGED <<lock, pc, ret, loc>>
    /\ UNCHANGED <<sys, op, id, calls, failed, queries, locked, since>>

\* false  (the loop is over)
IsMeetingAppReturn(t) ==
    /\ pc[t] = "scan" /\ op[t] = "is_meeting_app"
    /\ todo[t] \cap DOMAIN sys.procs = {}
    /\ Return(t, Bool(FALSE))
    /\ UNCHANGED <<sys, op, id, calls, seen, failed, queries, locked, since>>

(***************************************************************************)
(* refresh                                                                 *)
(***************************************************************************)
\* sys.refresh_all();
RefreshAll(t) ==
    /\ pc[t] = "refresh" /\ op[t] = "refresh"
    /\ \E ok \in BOOLEAN :
         /\ \E c \in CpuAnswers(ok), m \in MemoryAnswers(ok),
               p \in ProcessAnswers(ok) :
                sys' = refresh_all(sys, c, m, p, id[t])
         /\ Queried(t, ok, "unlock")

\* the end of the function: no value
RefreshReturn(t) ==
    /\ pc[t] = "unlock" /\ op[t] = "refresh"
    /\ Return(t, Unit)
    /\ UNCHANGED <<sys, op, id, calls, seen, failed, queries, locked, since>>

(***************************************************************************)
(* The program.                                                            *)
(***************************************************************************)
\* a step of thread t inside the method it is running
Step(t) ==
    \/ Lock(t)
    \/ GetCpuUsageRefresh(t)
    \/ GetCpuUsageReturn(t)
    \/ GetMemoryUsageRefresh(t)
    \/ GetMemoryUsageTotal(t)
    \/ GetMemoryUsageUsed(t)
    \/ GetMemoryUsageReturn(t)
    \/ IsFullscreen(t)
    \/ IsMeetingAppRefresh(t)
    \/ IsMeetingAppIter(t)
    \/ IsMeetingAppScan(t)
    \/ IsMeetingAppReturn(t)
    \/ RefreshAll(t)
    \/ RefreshReturn(t)

Next ==
    \E t \in Threads :
        \/ \E m \in Methods : Call(t, m)
        \/ Step(t)

Spec == Init /\ [][Next]_vars

\* every running call is scheduled, and the lock is handed out fairly
FairSpec ==
    /\ Init /\ [][Next]_vars
    /\ \A t \in Threads : WF_vars(Step(t)) /\ SF_vars(Lock(t))


(***************************************************************************)
(* Vocabulary of the properties.                                           *)
(***************************************************************************)
Reads == {"get_cpu_usage", "get_memory_usage", "is_meeting_app"}
Done(t) == pc[t] = "done"
\* between lock() returning and the guard being dropped
Holding(t) == pc[t] \in {"refresh", "read", "used", "calc", "iter", "scan", "unlock"}
\* between the refresh step and the return
Refreshed(t) == pc[t] \in {"read", "used", "calc", "iter", "scan", "unlock"}
InCall(t) == pc[t] \notin {"idle", "done"}

(***************************************************************************)
(* C1: on one instance called from several threads, no two of              *)
(* get_cpu_usage, get_memory_usage, is_meeting_app and refresh are at the  *)
(* same time between taking the lock (hence between their refresh step)    *)
(* and their return, and whoever is there holds the lock.                  *)
(***************************************************************************)
C1_Serialized ==
    /\ \A t1, t2 \in Threads : t1 # t2 => ~(Holding(t1) /\ Holding(t2))
    /\ \A t \in Threads : Holding(t) => lock = t

\* one call has refreshed and not yet returned while another waits for the lock
C1_Witness ==
    \E t1, t2 \in Threads : t1 # t2 /\ Refreshed(t1) /\ pc[t2] = "lock"

(***************************************************************************)
(* C2: whatever the interleaving, all the handle data a returned           *)
(* get_cpu_usage, get_memory_usage or is_meeting_app has read (total and   *)
(* used; the process table at every turn of the scan) was written by one   *)
(* refresh, the call's own.                                                *)
(***************************************************************************)
C2_SingleSnapshot ==
    \A t \in Threads :
        /\ seen[t] \subseteq {id[t]}
        /\ Done(t) /\ op[t] \in Reads => seen[t] = {id[t]}

\* a get_memory_usage returned while an earlier call was still waiting
C2_Witness ==
    \E t1, t2 \in Threads :
        /\ Done(t1) /\ op[t1] = "get_memory_usage" /\ seen[t1] = {id[t1]}
        /\ pc[t2] = "lock" /\ op[t2] \in {"get_memory_usage", "refresh"}
        /\ id[t2] < id[t1]

(***************************************************************************)
(* C3: is_meeting_app returns true exactly when some process of the list   *)
(* its own refresh obtained has a name that, lowercased, contains one of   *)
(* the seven signatures: true for "Teams.exe" and "zoomcast_helper", false *)
(* for a list of unrelated names and for the empty list, in any order of   *)
(* iteration.                                                              *)
(***************************************************************************)
\* the names the specification gives, with the answer it gives for each
C3_Examples ==
    /\ \A n \in { <<"z","o","o","m">>, TeamsExe,
                  <<"W","e","M","e","e","t","A","p","p">>,
                  <<"D","i","n","g","T","a","l","k">>,
                  <<"f","e","i","s","h","u">>,
                  <<"W","e","b","e","x">>,
                  <<"S","l","a","c","k">>,
                  ZoomcastHelper } : NameMatches(n)
    /\ \A n \in { Explorer, <<"b","a","s","h">>,
                  <<"n","o","t","e","p","a","d">> } : ~NameMatches(n)

C3_MeetingAppIff ==
    /\ C3_Examples
    /\ \A t \in Threads :
         Done(t) /\ op[t] = "is_meeting_app" /\ sys.procE = id[t] =>
            /\ ret[t].kind = "bool"
            /\ ret[t].b <=>
                 \E p \in DOMAIN sys.procs :
                     \E k \in 1..Len(meeting_apps) :
                         Contains(ToLowercase(sys.procs[p]), meeting_apps[k])
            /\ (\E p \in DOMAIN sys.procs :
                    sys.procs[p] \in {TeamsExe, ZoomcastHelper}) => ret[t].b
            /\ (\A p \in DOMAIN sys.procs : sys.procs[p] = Explorer) => ~ret[t].b

\* a list of two whose second process is the meeting app
C3_Witness ==
    \E t \in Threads :
        /\ Done(t) /\ op[t] = "is_meeting_app" /\ sys.procE = id[t]
        /\ sys.procs = <<Explorer, TeamsExe>>
        /\ ret[t] = Bool(TRUE)

C5_MemoryValue ==
    \A t \in Threads :
        Done(t) /\ op[t] = "get_memory_usage" /\ sys.memE = id[t] =>
            /\ ret[t].kind = "f32"
            /\ sys.total = 0 => ret[t] = F32(0, 1)
            /\ sys.total > 0 =>
                  /\ ret[t].den > 0
                  /\ ret[t].num * sys.total = sys.used * 100 * ret[t].den

\* no total memory, some used memory: 0.0
C5_Witness ==
    \E t \in Threads :
        /\ Done(t) /\ op[t] = "get_memory_usage" /\ sys.memE = id[t]
        /\ sys.total = 0 /\ sys.used = 1
        /\ ~failed[t]
        /\ ret[t] = F32(0, 1)


C7_FullscreenFalse ==
    \A t \in Threads : Done(t) /\ op[t] = "is_fullscreen" => ret[t] = Bool(FALSE)

\* is_fullscreen was called and returned while another call, which had
\* listed a meeting app, held the lock
C7_Witness ==
    \E t1, t2 \in Threads :
        /\ Done(t1) /\ op[t1] = "is_fullscreen" /\ ret[t1] = Bool(FALSE)
        /\ Holding(t2) /\ Refreshed(t2) /\ id[t2] < id[t1]
        /\ \E p \in DOMAIN sys.procs : sys.procs[p] = TeamsExe

(***************************************************************************)
(* C8 as stated: a read that takes the lock while the handle holds exactly *)
(* what a refresh() installed returns the value of that state (stated for  *)
(* the two reads whose value is a function of the counters alone, with     *)
(* every OS query answered).                                               *)
(***************************************************************************)
C8_ReadObservesRefresh ==
    \A t \in Threads :
        Done(t) /\ since[t].e > 0 /\ (\A u \in Threads : ~failed[u]) =>
            /\ op[t] = "get_memory_usage" => ret[t] = since[t].mem
            /\ op[t] = "is_meeting_app" => ret[t] = Bool(since[t].app)

(***************************************************************************)
(* C8, amended: refresh() rewrites the CPU, memory and process counters in *)
(* one step and returns no value; a read that follows it returns a value   *)
(* of its own narrow refresh, and the counters that read does not refresh  *)
(* stay as refresh() installed them.                                       *)
(***************************************************************************)
C8_RefreshInstallsAll ==
    \A t \in Threads :
        /\ pc[t] = "unlock" =>
             sys.cpuE = id[t] /\ sys.memE = id[t] /\ sys.procE = id[t]
        /\ Done(t) /\ op[t] = "refresh" => ret[t] = Unit
        /\ Done(t) /\ op[t] \in Reads => seen[t] = {id[t]}
        /\ Refreshed(t) /\ since[t].e > 0 =>
             /\ op[t] = "get_cpu_usage" =>
                  sys.cpuE = id[t] /\ sys.memE = since[t].e /\ sys.procE = since[t].e
             /\ op[t] = "get_memory_usage" =>
                  sys.cpuE = since[t].e /\ sys.memE = id[t] /\ sys.procE = since[t].e
             /\ op[t] = "is_meeting_app" =>
                  sys.cpuE = since[t].e /\ sys.memE = since[t].e /\ sys.procE = id[t]

\* refresh() installed 50% memory use; the get_memory_usage() after it
\* returned the 100% of its own refresh, and the CPU figure and the process
\* table are still refresh()'s
C8_Witness ==
    \E t \in Threads :
        /\ Done(t) /\ op[t] = "get_memory_usage" /\ since[t].e > 0
        /\ since[t].mem = F32(100, 2)
        /\ ret[t] = F32(200, 2)
        /\ seen[t] = {id[t]} /\ sys.memE = id[t]
        /\ sys.cpuE = since[t].e /\ sys.procE = since[t].e

(***************************************************************************)
(* C9: each read queries the OS for its own counter and leaves the others  *)
(* as they are: get_cpu_usage writes only the CPU figure, get_memory_usage *)
(* only the memory counters, is_meeting_app only the process table;        *)
(* no other step, is_fullscreen included, changes the handle.              *)
(***************************************************************************)
RefreshStep(t) == pc[t] = "refresh" /\ pc'[t] # "refresh"
CpuSame == sys'.cpu = sys.cpu /\ sys'.cpuE = sys.cpuE
MemSame == sys'.total = sys.total /\ sys'.used = sys.used /\ sys'.memE = sys.memE
ProcsSame == sys'.procs = sys.procs /\ sys'.procE = sys.procE

C9_Step ==
    /\ \A t \in Threads :
         RefreshStep(t) =>
            /\ queries'[t] = queries[t] + 1
            /\ op[t] = "get_cpu_usage" =>
                 sys'.cpuE = id[t] /\ MemSame /\ ProcsSame
            /\ op[t] = "get_memory_usage" =>
                 sys'.memE = id[t] /\ CpuSame /\ ProcsSame
            /\ op[t] = "is_meeting_app" =>
                 sys'.procE = id[t] /\ CpuSame /\ MemSame
    /\ (\A t \in Threads : ~RefreshStep(t)) => sys' = sys
    /\ \A t \in Threads :
         pc[t] # "done" /\ pc'[t] = "done" /\ op[t] \in Reads =>
            queries[t] = 1 /\ seen'[t] = {id[t]}

C9_NarrowRefresh == [][C9_Step]_vars

\* get_cpu_usage returned: the CPU figure is its own, the memory counters
\* and the process table are not
C9_Witness ==
    \E t \in Threads :
        /\ Done(t) /\ op[t] = "get_cpu_usage" /\ queries[t] = 1
        /\ sys.cpuE = id[t] /\ sys.memE # id[t] /\ sys.procE # id[t]

(***************************************************************************)
(* C10: every call of get_cpu_usage, get_memory_usage, is_meeting_app and  *)
(* refresh takes the lock once and has released it when it returns, on the *)
(* early return of is_meeting_app too; no state with a call in progress is *)
(* stuck; is_fullscreen never takes the lock and can return while another  *)
(* call holds it; and with a fair lock every started call returns.         *)
(***************************************************************************)
C10_State ==
    /\ \A t \in Threads :
         /\ Done(t) => /\ lock # t
                       /\ locked[t] = IF op[t] = "is_fullscreen" THEN 0 ELSE 1
         /\ pc[t] = "body" => ENABLED IsFullscreen(t)
    /\ lock # NoThread => Holding(lock)
    /\ (\E t \in Threads : InCall(t)) => \E t \in Threads : ENABLED Step(t)

C10_LockDiscipline ==
    /\ []C10_State
    /\ \A t \in Threads : InCall(t) ~> Done(t)

\* is_meeting_app returned early with true, and the lock has since been
\* taken by another call
C10_Witness ==
    \E t1, t2 \in Threads :
        /\ Done(t1) /\ op[t1] = "is_meeting_app" /\ ret[t1] = Bool(TRUE)
        /\ locked[t1] = 1
        /\ lock = t2 /\ id[t2] < id[t1]

=============================================================================
